---------------------------- MODULE Spec2Model ----------------------------
(***************************************************************************)
(* Model of the GET /v1/events handler of src/api.js (malrot/api).         *)
(*                                                                         *)
(* One request is followed from its arrival to its response.  JavaScript   *)
(* strings are sequences of one-character strings, so that split,          *)
(* toUpperCase, toLowerCase and Number are computed and not assumed.       *)
(* JavaScript numbers are records [nan, v]: NaN is [nan |-> TRUE], and an  *)
(* `undefined` used as a number behaves as NaN (isNaN is true of it and    *)
(* every comparison with it is false).                                     *)
(***************************************************************************)
EXTENDS Integers, Sequences, FiniteSets, TLC

(***************************************************************************)
(* Characters and strings                                                  *)
(***************************************************************************)
Lowers ==
  <<"a","b","c","d","e","f","g","h","i","j","k","l","m",
    "n","o","p","q","r","s","t","u","v","w","x","y","z">>

Uppers ==
  <<"A","B","C","D","E","F","G","H","I","J","K","L","M",
    "N","O","P","Q","R","S","T","U","V","W","X","Y","Z">>

Digits == <<"0","1","2","3","4","5","6","7","8","9">>

\* The characters of the model in code-unit order: , - 0-9 A-Z a-z
Alphabet == <<",", "-">> \o Digits \o Uppers \o Lowers

Range(f) == { f[i] : i \in DOMAIN f }

LowerSet == Range(Lowers)
UpperSet == Range(Uppers)
DigitSet == Range(Digits)

IndexIn(seq, c) == CHOOSE i \in DOMAIN seq : seq[i] = c

UpperOf == [ c \in LowerSet |-> Uppers[IndexIn(Lowers, c)] ]
LowerOf == [ c \in UpperSet |-> Lowers[IndexIn(Uppers, c)] ]
DigitVal == [ c \in DigitSet |-> IndexIn(Digits, c) - 1 ]
CharCode == [ c \in Range(Alphabet) |-> IndexIn(Alphabet, c) ]

\* String.prototype.toUpperCase
toUpperCase(s) == [ i \in DOMAIN s |-> IF s[i] \in LowerSet THEN UpperOf[s[i]] ELSE s[i] ]

\* String.prototype.toLowerCase
toLowerCase(s) == [ i \in DOMAIN s |-> IF s[i] \in UpperSet THEN LowerOf[s[i]] ELSE s[i] ]

\* String.prototype.includes(",")
includesComma(s) == \E i \in DOMAIN s : s[i] = ","

\* /[a-zA-Z]/.test(c)
hasLetter(s) == \E i \in DOMAIN s : s[i] \in LowerSet \cup UpperSet

\* String.prototype.split(","): "" gives [""], "a," gives ["a", ""]
RECURSIVE SplitFrom(_, _, _)
SplitFrom(s, i, cur) ==
  IF i > Len(s) THEN <<cur>>
  ELSE IF s[i] = "," THEN <<cur>> \o SplitFrom(s, i + 1, <<>>)
  ELSE SplitFrom(s, i + 1, Append(cur, s[i]))

split(s) == SplitFrom(s, 1, <<>>)

\* Array.prototype.join(","), the ToPrimitive of an array
RECURSIVE join(_)
join(l) ==
  IF Len(l) = 0 THEN <<>>
  ELSE IF Len(l) = 1 THEN l[1]
  ELSE l[1] \o <<",">> \o join(Tail(l))

(***************************************************************************)
(* Numbers                                                                 *)
(***************************************************************************)
NaN == [nan |-> TRUE, v |-> 0]
Num(n) == [nan |-> FALSE, v |-> n]

isNaN(x) == x.nan

IsDigits(s) == Len(s) > 0 /\ \A i \in DOMAIN s : s[i] \in DigitSet

RECURSIVE ParseNat(_)
ParseNat(s) ==
  IF Len(s) = 0 THEN 0
  ELSE 10 * ParseNat(SubSeq(s, 1, Len(s) - 1)) + DigitVal[s[Len(s)]]

\* Number(string) on the strings of the model (integer literals): the empty
\* string is 0, a decimal integer with an optional minus sign is its value,
\* anything else is NaN.
Number(s) ==
  IF Len(s) = 0 THEN Num(0)
  ELSE IF IsDigits(s) THEN Num(ParseNat(s))
  ELSE IF s[1] = "-" /\ IsDigits(Tail(s)) THEN Num(0 - ParseNat(Tail(s)))
  ELSE NaN

\* a < b, a <= b, a > b on JavaScript numbers: false when either is NaN
Lt(a, b) == ~a.nan /\ ~b.nan /\ a.v < b.v
Le(a, b) == ~a.nan /\ ~b.nan /\ a.v <= b.v
Gt(a, b) == ~a.nan /\ ~b.nan /\ a.v > b.v

\* array[i] used as a number, i counted from 0: undefined past the end
At(nums, i) == IF i + 1 <= Len(nums) THEN nums[i + 1] ELSE NaN

\* An optional string (a property that may be undefined)
Undefined == [def |-> FALSE, s |-> <<>>]
Some(s) == [def |-> TRUE, s |-> s]

\* Number(x) where x may be undefined
NumberOf(x) == IF x.def THEN Number(x.s) ELSE NaN

\* String(n) of a number
RECURSIVE NatToStr(_)
NatToStr(n) ==
  IF n < 10 THEN <<Digits[n + 1]>>
  ELSE Append(NatToStr(n \div 10), Digits[(n % 10) + 1])

NumToStr(x) ==
  IF x.nan THEN <<"N","a","N">>
  ELSE IF x.v < 0 THEN <<"-">> \o NatToStr(0 - x.v)
  ELSE NatToStr(x.v)

\* a > b on two strings: comparison by code units
RECURSIVE StrGt(_, _)
StrGt(a, b) ==
  IF Len(a) = 0 THEN FALSE
  ELSE IF Len(b) = 0 THEN TRUE
  ELSE IF a[1] = b[1] THEN StrGt(Tail(a), Tail(b))
  ELSE CharCode[a[1]] > CharCode[b[1]]

(***************************************************************************)
(* Query parameters as the HTTP layer delivers them in req.query: absent,  *)
(* a string, a list of strings (a repeated parameter) or an object (a      *)
(* bracketed parameter).                                                   *)
(***************************************************************************)
Absent == [kind |-> "absent", s |-> <<>>, l |-> <<>>]
Str(s) == [kind |-> "str", s |-> s, l |-> <<>>]
List(l) == [kind |-> "list", s |-> <<>>, l |-> l]
Obj == [kind |-> "obj", s |-> <<>>, l |-> <<>>]

\* if (req.query.x): undefined and "" are falsy, arrays and objects truthy
Truthy(p) == IF p.kind = "str" THEN Len(p.s) > 0 ELSE p.kind # "absent"

\* ToNumber(ToPrimitive(p)) of a parameter: an array is joined with commas
\* first, an object is "[object Object]"
ToNumber(p) ==
  IF p.kind = "str" THEN Number(p.s)
  ELSE IF p.kind = "list" THEN Number(join(p.l))
  ELSE NaN

(***************************************************************************)
(* Validation, src/api.js lines 57-141                                     *)
(***************************************************************************)
Error(code, of, message) == [code |-> code, of |-> of, message |-> message]

LonMin == -180
LonMax == 180
LatMin == -90
LatMax == 90
CountryLen == 2

\* Lines 61-72.  A TypeError is thrown when org is truthy and no string: an
\* object has no includes, an array has includes but no toLowerCase.
OrgThrows(org) == Truthy(org) /\ org.kind # "str"

OrgErrors(org) ==
  IF ~Truthy(org) THEN <<>>
  ELSE
    (IF includesComma(org.s)
       THEN <<Error("wrong_org_param", <<>>, "Org must be a unique value")>>
       ELSE <<>>)
    \o
    (IF org.s # toLowerCase(org.s)
       THEN <<Error("wrong_org_param", <<>>, "Org must be in lowercase")>>
       ELSE <<>>)

\* Lines 75-104.  split is a method of strings only.
AroundThrows(around) == Truthy(around) /\ around.kind # "str"

\* Lines 76-77: split(",") then map(Number)
AroundNumbers(s) == LET toks == split(s) IN [ i \in DOMAIN toks |-> Number(toks[i]) ]

\* Line 99: the radius test of the validator
RadiusRejected(r) == Lt(r, Num(0))

AroundErrors(around) ==
  IF ~Truthy(around) THEN <<>>
  ELSE
    LET a == AroundNumbers(around.s) IN
    (IF isNaN(At(a, 0)) \/ isNaN(At(a, 1)) \/ isNaN(At(a, 2)) \/ Len(a) # 3
       THEN <<Error("wrong_around_param", <<>>,
                    "Around param must be a list of 3 numbers, separated by commas")>>
       ELSE <<>>)
    \o
    (IF Le(At(a, 0), Num(LonMin)) \/ Gt(At(a, 0), Num(LonMax))
       THEN <<Error("wrong_around_param", <<>>,
                    "Longitude must be between -180 (inclusive) and 180 (exclusive)")>>
       ELSE <<>>)
    \o
    (IF Lt(At(a, 1), Num(LatMin)) \/ Gt(At(a, 1), Num(LatMax))
       THEN <<Error("wrong_around_param", <<>>, "Latitude must be between -90 and 90")>>
       ELSE <<>>)
    \o
    (IF RadiusRejected(At(a, 2))
       THEN <<Error("wrong_around_param", <<>>, "Distance must be greater than 0")>>
       ELSE <<>>)

\* Lines 107-126.
CountryThrows(country) == Truthy(country) /\ country.kind # "str"

\* CodeErrors without the test of line 115
CodeErrorsNoLetterTest(c) ==
  (IF c # toUpperCase(c)
     THEN <<Error("wrong_country_param", c,
                  "ISO 3166-1 alpha-2 country code must be in uppercase")>>
     ELSE <<>>)
  \o
  (IF Len(c) # 2
     THEN <<Error("wrong_country_param", c,
                  "ISO 3166-1 alpha-2 country code must be 2-letter long")>>
     ELSE <<>>)

\* Lines 110-124: the errors of one code, in the order of the three tests
CodeErrors(c) ==
  (IF c # toUpperCase(c)
     THEN <<Error("wrong_country_param", c,
                  "ISO 3166-1 alpha-2 country code must be in uppercase")>>
     ELSE <<>>)
  \o
  (IF ~hasLetter(c)
     THEN <<Error("wrong_country_param", c,
                  "ISO 3166-1 alpha-2 country code must be only letters")>>
     ELSE <<>>)
  \o
  (IF Len(c) # CountryLen
     THEN <<Error("wrong_country_param", c,
                  "ISO 3166-1 alpha-2 country code must be 2-letter long")>>
     ELSE <<>>)

RECURSIVE CodesErrors(_)
CodesErrors(codes) ==
  IF Len(codes) = 0 THEN <<>>
  ELSE CodeErrors(Head(codes)) \o CodesErrors(Tail(codes))

CountryErrors(country) ==
  IF ~Truthy(country) THEN <<>> ELSE CodesErrors(split(country.s))

\* Lines 129-141.  Number(x) never throws: an array is joined first.
UpdatedAtErrors(updated_at) ==
  IF ~Truthy(updated_at) THEN <<>>
  ELSE
    LET u == ToNumber(updated_at) IN
    (IF isNaN(u)
       THEN <<Error("wrong_updated_at_param", <<>>, "Updated_at must be a number")>>
       ELSE <<>>)
    \o
    (IF Lt(u, Num(0))
       THEN <<Error("wrong_updated_at_param", <<>>, "Updated_at must be greater than 0")>>
       ELSE <<>>)

\* Lines 57-141 as a whole: the four blocks run one after the other, each
\* appending to the same list; a TypeError in a block leaves the handler.
ValidationThrows(q) ==
  OrgThrows(q.org) \/ AroundThrows(q.around) \/ CountryThrows(q.country)

ValidationErrors(q) ==
  OrgErrors(q.org) \o AroundErrors(q.around) \o CountryErrors(q.country)
    \o UpdatedAtErrors(q.updated_at)

\* Line 144 without its early return
NeverReturnsErrors(errs) == FALSE

\* Line 144: if (errors.length > 0) return res.status(400).json(errors)
ReturnsErrors(errs) == Len(errs) > 0

(***************************************************************************)
(* The remote listing and the projection, src/api.js lines 150-170         *)
(***************************************************************************)
MALROT_URL == "https://api.malrot.org"

\* An ISO-8601 timestamp of the listing: the instant it denotes (seconds and
\* milliseconds since the epoch), or a string that is no ISO date.
Iso(s, ms) == [valid |-> TRUE, s |-> s, ms |-> ms]
NoDate == [valid |-> FALSE, s |-> 0, ms |-> 0]

\* getTime(parseISO(x)): milliseconds since the epoch, NaN for an invalid date
getTime(x) == IF x.valid THEN Num(x.s * 1000 + x.ms) ELSE NaN

\* A raw object of the listing.  hasMeta is FALSE when the object carries no
\* `metadata` property (the store omits it for an object without custom
\* metadata); the metadata fields are strings or undefined.
Raw(name, country, lon, lat, updated) ==
  [name |-> name, hasMeta |-> TRUE, title |-> Some(<<"t">>), country |-> country,
   longitude |-> lon, latitude |-> lat, timeCreated |-> Iso(0, 1), updated |-> updated]

RawObjects ==
  { Raw("a", Some(<<"F","R">>), Some(<<"1">>), Some(<<"0">>), Iso(1, 0)),
    Raw("b", Some(<<"F","R">>), Some(<<"0">>), Some(<<"1">>), Iso(1, 1)),
    Raw("c", Some(<<"D","E">>), Some(<<"0">>), Some(<<"0">>), Iso(0, 999)),
    Raw("d", Some(<<"D","E">>), Some(<<"2">>), Some(<<"0">>), Iso(1, 1)),
    Raw("e", Some(<<"F","R">>), Some(<<"1","0">>), Some(<<"1","0">>), Iso(2, 0)),
    [name |-> "f", hasMeta |-> TRUE, title |-> Undefined, country |-> Undefined,
     longitude |-> Undefined, latitude |-> Undefined,
     timeCreated |-> Iso(0, 1), updated |-> NoDate],
    [name |-> "g", hasMeta |-> FALSE, title |-> Undefined, country |-> Undefined,
     longitude |-> Undefined, latitude |-> Undefined,
     timeCreated |-> Iso(0, 1), updated |-> Iso(1, 1)] }

\* The longest listing of the model
MaxItems == 3

\* The listings the remote call can resolve to: the parsed body has no
\* `items` (an empty bucket or prefix), or a list of objects of distinct names.
ItemLists ==
  UNION { { l \in [1..n -> RawObjects] :
              \A i, j \in 1..n : i # j => l[i].name # l[j].name } : n \in 0..MaxItems }

Listings ==
  { [hasItems |-> FALSE, items |-> <<>>] }
    \cup { [hasItems |-> TRUE, items |-> l] : l \in ItemLists }

NoDistance == [def |-> FALSE, d |-> NaN]

\* Lines 160-168: one raw object to one event (object.metadata is defined)
Project(object) ==
  [title |-> object.title,
   endpoint |-> <<MALROT_URL, "/v1/events/", object.name>>,
   created_at |-> getTime(object.timeCreated),
   updated_at |-> getTime(object.updated),
   country |-> object.country,
   longitude |-> NumberOf(object.longitude),
   latitude |-> NumberOf(object.latitude),
   distance |-> NoDistance]

\* Line 161: object.metadata.title throws a TypeError when metadata is undefined
ProjectionThrows(listing) ==
  listing.hasItems /\ \E i \in DOMAIN listing.items : ~listing.items[i].hasMeta

\* Lines 157-170
ProjectAll(listing) ==
  IF listing.hasItems
    THEN [ i \in DOMAIN listing.items |-> Project(listing.items[i]) ]
    ELSE <<>>

(***************************************************************************)
(* The filters and the sort, src/api.js lines 172-199                      *)
(***************************************************************************)
\* Lines 173-176: country.includes(event.country)
CountryFilter(q, data) ==
  IF ~Truthy(q.country) THEN data
  ELSE
    LET country == split(q.country.s)
        Keep(event) == event.country.def
                         /\ \E i \in DOMAIN country : country[i] = event.country.s
    IN SelectSeq(data, Keep)

NewerThanLexical(updated_at, p) ==
  p.kind # "obj"
    /\ StrGt(NumToStr(updated_at), IF p.kind = "list" THEN join(p.l) ELSE p.s)

\* Line 180: event.updated_at > req.query.updated_after, a number against a
\* string (or an array): the right side is converted to a number
NewerThan(updated_at, p) == Gt(updated_at, ToNumber(p))

\* Lines 179-181
RecencyFilter(q, data) ==
  IF ~Truthy(q.updated_after) THEN data
  ELSE
    LET Keep(event) == NewerThan(event.updated_at, q.updated_after)
    IN SelectSeq(data, Keep)

Abs(n) == IF n < 0 THEN 0 - n ELSE n

\* Lines 189-192: distance([around[0], around[1]], [longitude, latitude]) of
\* @turf/distance.  The library's great-circle formula is replaced by a
\* metric on whole degrees (|dlon| + |dlat|); like the library (version 6) it
\* yields NaN from a NaN coordinate and 0 for equal points.
Distance(fromLon, fromLat, toLon, toLat) ==
  IF fromLon.nan \/ fromLat.nan \/ toLon.nan \/ toLat.nan THEN NaN
  ELSE Num(Abs(toLon.v - fromLon.v) + Abs(toLat.v - fromLat.v))

WithinRadiusInclusive(d, r) == Le(d, r)

\* Line 196: event.distance < around[2]
WithinRadius(d, r) == Lt(d, r)

\* Lines 184-197
AroundFilter(q, data) ==
  IF ~Truthy(q.around) THEN data
  ELSE
    LET around == split(q.around.s)
        \* the strings around[i] are converted where they are used as numbers
        n(i) == IF i + 1 <= Len(around) THEN Number(around[i + 1]) ELSE NaN
        measured == [ i \in DOMAIN data |->
                       [data[i] EXCEPT !.distance =
                          [def |-> TRUE,
                           d |-> Distance(n(0), n(1), data[i].longitude, data[i].latitude)]] ]
        Keep(event) == WithinRadius(event.distance.d, n(2))
    IN SelectSeq(measured, Keep)

\* lodash compareAscending on two `distance` values: 1, 0 or -1
compareAscending(value, other) ==
  IF value = other /\ ~(value.def /\ value.d.nan) THEN 0
  ELSE IF (value.def /\ other.def /\ Gt(value.d, other.d))
          \/ (~value.def /\ ~(other.def /\ other.d.nan))
          \/ (value.def /\ value.d.nan) THEN 1
  ELSE IF (value.def /\ other.def /\ Lt(value.d, other.d))
          \/ (~other.def /\ ~(value.def /\ value.d.nan))
          \/ (other.def /\ other.d.nan) THEN -1
  ELSE 0

\* The place of an element among those already sorted: before the first
\* one that compares greater (ties keep the order of arrival, as lodash breaks
\* them by the original index)
RECURSIVE InsertSorted(_, _)
InsertSorted(sorted, e) ==
  IF Len(sorted) = 0 THEN <<e>>
  ELSE IF compareAscending(Head(sorted).distance, e.distance) = 1 THEN <<e>> \o sorted
  ELSE <<Head(sorted)>> \o InsertSorted(Tail(sorted), e)

RECURSIVE InsertTiesFirst(_, _)
InsertTiesFirst(sorted, e) ==
  IF Len(sorted) = 0 THEN <<e>>
  ELSE IF compareAscending(Head(sorted).distance, e.distance) >= 0 THEN <<e>> \o sorted
  ELSE <<Head(sorted)>> \o InsertTiesFirst(Tail(sorted), e)

RECURSIVE SortTiesReversed(_)
SortTiesReversed(data) ==
  IF Len(data) = 0 THEN <<>>
  ELSE InsertTiesFirst(SortTiesReversed(SubSeq(data, 1, Len(data) - 1)), data[Len(data)])

\* Line 199: _.sortBy(data, ["distance"]), a stable ascending sort
RECURSIVE sortBy(_)
sortBy(data) ==
  IF Len(data) = 0 THEN <<>>
  ELSE InsertSorted(sortBy(SubSeq(data, 1, Len(data) - 1)), data[Len(data)])

(***************************************************************************)
(* The requests of the model                                               *)
(***************************************************************************)
OrgValues ==
  { Absent,
    Str(<<"a","b","c">>),
    Str(<<"A","b","c">>),
    Str(<<"a",",","b">>),
    List(<< <<"a">>, <<"b">> >>) }

AroundValues ==
  { Absent,
    Str(<<"0",",","0",",","2">>),
    Str(<<"0",",","0",",","0">>),
    Str(<<"1",",","0",",","1">>),
    Str(<<"1","8","0",",","9","0",",","5">>),
    Str(<<"-","1","8","0",",","0",",","1">>),
    Str(<<"1","8","1",",","0",",","1">>),
    Str(<<"0",",","9","1",",","1">>),
    Str(<<"0",",","0",",","-","1">>),
    Str(<<"x",",","0",",","1">>),
    Str(<<"1",",","2">>),
    Str(<<"2","0","0",",","0">>),
    Obj }

CountryValues ==
  { Absent,
    Str(<<"F","R">>),
    Str(<<"F","R",",","D","E">>),
    Str(<<"F","R",",","1",",","x","y","z">>),
    Str(<<"f","r">>),
    List(<< <<"F","R">>, <<"D","E">> >>) }

UpdatedAtValues ==
  { Absent,
    Str(<<"5">>),
    Str(<<"-","5">>),
    Str(<<"a","b","c">>),
    List(<< <<"1">>, <<"2">> >>) }

UpdatedAfterValues ==
  { Absent,
    Str(<<"1","0","0","0">>),
    Str(<<"-","5">>),
    Str(<<"a","b","c">>),
    List(<< <<"1","0","0","0">> >>) }

Queries ==
  [org : OrgValues, around : AroundValues, country : CountryValues,
   updated_at : UpdatedAtValues, updated_after : UpdatedAfterValues]

(***************************************************************************)
(* The handler of GET /v1/events as a state machine                        *)
(***************************************************************************)
VARIABLES
  pc,            \* "start", "validated", "await", "done" or "crashed"
  query,         \* req.query
  errors,        \* the list `errors`
  calls,         \* the listing calls issued so far, each with its prefix
  remote,        \* "none", "resolved" or "rejected": how the call ended
  listing,       \* the parsed body of the listing call
  projected,     \* `data` after the projection
  afterCountry,  \* `data` after the country filter
  afterRecency,  \* `data` after the updated_after filter
  afterAround,   \* `data` after the around filter
  status,        \* the status of the response, 0 before it is sent
  body,          \* the body of the response
  sent           \* the number of responses sent

vars == <<pc, query, errors, calls, remote, listing, projected, afterCountry,
          afterRecency, afterAround, status, body, sent>>

NoListing == [hasItems |-> FALSE, items |-> <<>>]
NoBody == [kind |-> "none", errors |-> <<>>, events |-> <<>>]
ErrorsBody(errs) == [kind |-> "errors", errors |-> errs, events |-> <<>>]
EventsBody(data) == [kind |-> "events", errors |-> <<>>, events |-> data]

BadRequest == 400
Ok == 200
ServerError == 500

Init ==
  /\ pc = "start"
  /\ query \in Queries
  /\ errors = <<>>
  /\ calls = <<>>
  /\ remote = "none"
  /\ listing = NoListing
  /\ projected = <<>>
  /\ afterCountry = <<>>
  /\ afterRecency = <<>>
  /\ afterAround = <<>>
  /\ status = 0
  /\ body = NoBody
  /\ sent = 0

\* Lines 57-141.  A TypeError thrown here is outside the try block: the
\* async handler's promise rejects and no response is ever sent.
Validate ==
  /\ pc = "start"
  /\ IF ValidationThrows(query)
       THEN pc' = "crashed" /\ errors' = errors
       ELSE pc' = "validated" /\ errors' = ValidationErrors(query)
  /\ UNCHANGED <<query, calls, remote, listing, projected, afterCountry,
                 afterRecency, afterAround, status, body, sent>>

\* Line 144
RespondErrors ==
  /\ pc = "validated"
  /\ ReturnsErrors(errors)
  /\ pc' = "done"
  /\ status' = BadRequest
  /\ body' = ErrorsBody(errors)
  /\ sent' = sent + 1
  /\ UNCHANGED <<query, errors, calls, remote, listing, projected, afterCountry,
                 afterRecency, afterAround>>

\* Lines 151-153: the prefix of the listing call
ListingPrefix(q) == IF Truthy(q.org) THEN Some(q.org.s) ELSE Undefined

\* Lines 147-153: the listing call is issued and awaited
IssueListing ==
  /\ pc = "validated"
  /\ ~ReturnsErrors(errors)
  /\ pc' = "await"
  /\ calls' = Append(calls, ListingPrefix(query))
  /\ UNCHANGED <<query, errors, remote, listing, projected, afterCountry,
                 afterRecency, afterAround, status, body, sent>>

\* Lines 154-200, and 201-203 when the projection throws
ListingResolves ==
  /\ pc = "await"
  /\ \E l \in Listings :
       /\ listing' = l
       /\ IF ProjectionThrows(l)
            THEN /\ status' = ServerError
                 /\ body' = NoBody
                 /\ UNCHANGED <<projected, afterCountry, afterRecency, afterAround>>
            ELSE /\ projected' = ProjectAll(l)
                 /\ afterCountry' = CountryFilter(query, projected')
                 /\ afterRecency' = RecencyFilter(query, afterCountry')
                 /\ afterAround' = AroundFilter(query, afterRecency')
                 /\ status' = Ok
                 /\ body' = EventsBody(sortBy(afterAround'))
  /\ remote' = "resolved"
  /\ pc' = "done"
  /\ sent' = sent + 1
  /\ UNCHANGED <<query, errors, calls>>

\* Lines 201-203: the listing call fails
ListingRejects ==
  /\ pc = "await"
  /\ remote' = "rejected"
  /\ status' = ServerError
  /\ body' = NoBody
  /\ pc' = "done"
  /\ sent' = sent + 1
  /\ UNCHANGED <<query, errors, calls, listing, projected, afterCountry,
                 afterRecency, afterAround>>

Next ==
  \/ Validate
  \/ RespondErrors
  \/ IssueListing
  \/ ListingResolves
  \/ ListingRejects

Spec == Init /\ [][Next]_vars

(***************************************************************************)
(* Properties                                                              *)
(***************************************************************************)
Responded == pc = "done"
Validated == pc \in {"validated", "await", "done"}

Reported(errs, code) == \E i \in DOMAIN errs : errs[i].code = code
StringValued(q) ==
  \A p \in {q.org, q.around, q.country, q.updated_at, q.updated_after} :
    p.kind \in {"absent", "str"}

\* The rules of `around` as the specification states them: exactly three
\* numbers, longitude in (-180, 180], latitude in [-90, 90], radius > 0
AroundWellFormed(s) ==
  LET a == AroundNumbers(s) IN
  /\ Len(a) = 3
  /\ \A i \in 1..3 : ~a[i].nan
  /\ a[1].v > -180 /\ a[1].v <= 180
  /\ a[2].v >= -90 /\ a[2].v <= 90
  /\ a[3].v > 0

CountryWellFormed(s) ==
  LET codes == split(s) IN
  \A i \in DOMAIN codes :
    codes[i] = toUpperCase(codes[i]) /\ hasLetter(codes[i]) /\ Len(codes[i]) = 2

\* C1: the 400 response carries the errors of every invalid parameter, not
\* only of the first one: whenever a request is answered 400, an invalid
\* `around` is reported by a wrong_around_param error and an invalid
\* `country` by a wrong_country_param error (and likewise org, updated_at).
C1_AllInvalidParametersReported ==
  (Responded /\ status = 400) =>
    /\ (Truthy(query.org)
         /\ (includesComma(query.org.s) \/ query.org.s # toLowerCase(query.org.s))
          => Reported(body.errors, "wrong_org_param"))
    /\ (Truthy(query.around) /\ ~AroundWellFormed(query.around.s)
          => Reported(body.errors, "wrong_around_param"))
    /\ (Truthy(query.country) /\ ~CountryWellFormed(query.country.s)
          => Reported(body.errors, "wrong_country_param"))
    /\ (Truthy(query.updated_at)
         /\ (ToNumber(query.updated_at).nan \/ ToNumber(query.updated_at).v < 0)
          => Reported(body.errors, "wrong_updated_at_param"))

FR_1_xyz == Str(<<"F","R",",","1",",","x","y","z">>)

OnlyCountryErrors(errs) == \A i \in DOMAIN errs : errs[i].code = "wrong_country_param"

\* C2 as stated: country=FR,1,xyz with no other invalid parameter yields
\* exactly two errors, the length error of "1" and the length error of "xyz".
C2_ExactlyTwoLengthErrors ==
  (Validated /\ query.country = FR_1_xyz /\ OnlyCountryErrors(errors)) =>
    errors = << Error("wrong_country_param", <<"1">>,
                      "ISO 3166-1 alpha-2 country code must be 2-letter long"),
                Error("wrong_country_param", <<"x","y","z">>,
                      "ISO 3166-1 alpha-2 country code must be 2-letter long") >>

\* C2 amended: country=FR,1,xyz with no other invalid parameter yields
\* exactly four errors, in this order: for "1" the letter error and the
\* length error, for "xyz" the uppercase error and the length error; none
\* for "FR".
C2_FourErrors ==
  (Validated /\ query.country = FR_1_xyz /\ OnlyCountryErrors(errors)) =>
    errors = << Error("wrong_country_param", <<"1">>,
                      "ISO 3166-1 alpha-2 country code must be only letters"),
                Error("wrong_country_param", <<"1">>,
                      "ISO 3166-1 alpha-2 country code must be 2-letter long"),
                Error("wrong_country_param", <<"x","y","z">>,
                      "ISO 3166-1 alpha-2 country code must be in uppercase"),
                Error("wrong_country_param", <<"x","y","z">>,
                      "ISO 3166-1 alpha-2 country code must be 2-letter long") >>

C2_Witness ==
  /\ Responded /\ status = 400
  /\ query.country = FR_1_xyz
  /\ OnlyCountryErrors(body.errors)
  /\ Len(body.errors) = 4

\* C3: a request that supplies `around` and goes on to the listing call has
\* a well-formed triple: longitude in (-180, 180], latitude in [-90, 90] and
\* radius strictly greater than 0.
C3_AroundInRange ==
  (Len(calls) > 0 /\ Truthy(query.around)) => AroundWellFormed(query.around.s)

InSeq(data, event) == \E i \in DOMAIN data : data[i] = event

\* C4: with a numeric updated_after = T, an event that survived the country
\* filter survives the recency filter iff its updated_at is a number
\* strictly greater than T.
C4_RecencyIsNumeric ==
  (Responded /\ status = 200 /\ Truthy(query.updated_after)
     /\ query.updated_after.kind = "str" /\ ~Number(query.updated_after.s).nan) =>
    LET T == Number(query.updated_after.s).v IN
    /\ \A i \in DOMAIN afterCountry :
         InSeq(afterRecency, afterCountry[i])
           <=> (~afterCountry[i].updated_at.nan /\ afterCountry[i].updated_at.v > T)
    /\ \A i \in DOMAIN afterRecency : InSeq(afterCountry, afterRecency[i])

C4_Witness ==
  /\ Responded /\ status = 200
  /\ query.updated_after = Str(<<"1","0","0","0">>)
  /\ \E i \in DOMAIN afterCountry :
       afterCountry[i].updated_at = Num(1000) /\ ~InSeq(afterRecency, afterCountry[i])
  /\ \E i \in DOMAIN afterCountry :
       afterCountry[i].updated_at = Num(999) /\ ~InSeq(afterRecency, afterCountry[i])
  /\ \E i \in DOMAIN body.events : body.events[i].updated_at = Num(1001)

Measured(event, d) == [event EXCEPT !.distance = [def |-> TRUE, d |-> d]]

\* C5: with around = lon,lat,r the 200 response holds exactly the events
\* that survived the country and recency filters and lie at a distance
\* strictly less than r from (lon, lat), each carrying that distance.
C5_ExactlyTheEventsWithinRadius ==
  (Responded /\ status = 200 /\ Truthy(query.around)) =>
    LET a == AroundNumbers(query.around.s)
        D(event) == Distance(a[1], a[2], event.longitude, event.latitude)
        Near(event) == ~D(event).nan /\ D(event).v < a[3].v
    IN
    /\ \A i \in DOMAIN afterRecency :
         Near(afterRecency[i])
           <=> InSeq(body.events, Measured(afterRecency[i], D(afterRecency[i])))
    /\ \A j \in DOMAIN body.events :
         \E i \in DOMAIN afterRecency :
           Near(afterRecency[i])
             /\ body.events[j] = Measured(afterRecency[i], D(afterRecency[i]))
    /\ Len(body.events) = Cardinality({ i \in DOMAIN afterRecency : Near(afterRecency[i]) })

C5_Witness ==
  /\ Responded /\ status = 200
  /\ query.around = Str(<<"0",",","0",",","2">>)
  /\ \E i \in DOMAIN afterRecency :
       /\ afterRecency[i].longitude = Num(2) /\ afterRecency[i].latitude = Num(0)
       /\ \A j \in DOMAIN body.events : body.events[j].endpoint # afterRecency[i].endpoint
  /\ \E j \in DOMAIN body.events : body.events[j].distance = [def |-> TRUE, d |-> Num(0)]

\* The place in the listing of the object an event was made from
Place(event) == CHOOSE i \in DOMAIN listing.items : listing.items[i].name = event.endpoint[3]

\* C6: the events of a 200 response are in ascending order of distance, with
\* equal distances in the order of the listing; without `around` they are in
\* the order of the listing.
C6_StableAscendingOrder ==
  (Responded /\ status = 200) =>
    LET ev == body.events IN
    /\ \A j \in DOMAIN ev :
         /\ \E i \in DOMAIN listing.items : listing.items[i].name = ev[j].endpoint[3]
         /\ ev[j].distance.def <=> Truthy(query.around)
         /\ ev[j].distance.def => ~ev[j].distance.d.nan
    /\ \A i, j \in DOMAIN ev :
         i < j =>
           IF Truthy(query.around)
             THEN /\ ev[i].distance.d.v <= ev[j].distance.d.v
                  /\ ev[i].distance.d.v = ev[j].distance.d.v => Place(ev[i]) < Place(ev[j])
             ELSE Place(ev[i]) < Place(ev[j])

C6_Witness ==
  /\ Responded /\ status = 200
  /\ Truthy(query.around)
  /\ body.events # afterAround
  /\ \E i, j \in DOMAIN body.events :
       i < j /\ body.events[i].distance = body.events[j].distance

\* C7: with string-valued parameters the status is 400 with the error list
\* iff validation produced an error; otherwise 200 with the event list
\* whenever the listing call succeeds, and 500 without body when it fails.
C7_StatusByOutcome ==
  (Responded /\ StringValued(query)) =>
    /\ status = 400 <=> Len(errors) > 0
    /\ status = 400 => body = ErrorsBody(errors)
    /\ (Len(errors) = 0 /\ remote = "resolved") => (status = 200 /\ body.kind = "events")
    /\ (Len(errors) = 0 /\ remote = "rejected") => (status = 500 /\ body = NoBody)

\* C8: validation completes before any listing call; a request with a
\* validation error is answered 400 without a listing call; a request
\* without one issues exactly one listing call, with the org prefix when
\* org is supplied, before its single response; never more than one call.
C8_ValidationBeforeTheSingleCall ==
  /\ Len(calls) <= 1
  /\ sent <= 1
  /\ sent = 1 <=> Responded
  /\ Len(calls) > 0 => (pc \in {"await", "done"} /\ Len(errors) = 0)
  /\ (Validated /\ Len(errors) > 0) => Len(calls) = 0
  /\ (Responded /\ Len(errors) > 0) => (status = 400 /\ body.errors = errors)
  /\ (Responded /\ Len(errors) = 0) => (Len(calls) = 1 /\ status \in {200, 500})
  /\ pc = "await" => (Len(calls) = 1 /\ sent = 0 /\ remote = "none")
  /\ Len(calls) = 1 =>
       calls[1] = IF query.org.kind = "str" /\ Len(query.org.s) > 0
                    THEN [def |-> TRUE, s |-> query.org.s]
                    ELSE [def |-> FALSE, s |-> <<>>]

C8_Witness ==
  /\ Responded /\ status = 200
  /\ Len(calls) = 1
  /\ calls[1] = [def |-> TRUE, s |-> <<"a","b","c">>]

\* C9: every execution of the handler ends by sending exactly one response,
\* of status 200, 400 or 500; no exception leaves the handler.
C9_NoErrorEscapes ==
  pc \in {"done", "crashed"} => (sent = 1 /\ status \in {200, 400, 500})

\* C10: when the recency filter is applied, its threshold (updated_after)
\* is a number greater than or equal to 0.
C10_ThresholdValidated ==
  (Len(calls) > 0 /\ Truthy(query.updated_after)) =>
    (~ToNumber(query.updated_after).nan /\ ToNumber(query.updated_after).v >= 0)

=============================================================================
